---- MODULE Spec2Model ----
(***************************************************************************)
(* SeeQ camera client (frontend/app/index.tsx): the capture / upload /     *)
(* feedback orchestrator of the App component.                             *)
(*                                                                         *)
(* React state is modelled as React keeps it: a setter (setIsUploading,    *)
(* setCurrentMode, ...) updates the state held by React at once, but the   *)
(* handlers in use (the gesture callbacks, the setInterval callback and    *)
(* the takePicture they call) are closures of the last committed render    *)
(* and keep reading that render's values until the next commit.  The       *)
(* commit (re-render plus the effects it runs) is a step of its own, which *)
(* the event loop may order after other events that are already queued;    *)
(* it is pending from the moment a setter changes a value.                 *)
(***************************************************************************)
EXTENDS Integers, Sequences, FiniteSets, TLC

\* const SWIPE_THRESHOLD = 50
SWIPE_THRESHOLD == 50

\* Largest number of takePicture invocations suspended at the same time: a
\* trigger that would start one more is not delivered (the only guard of the
\* model that is not a condition of the code).
MaxInFlight == 2

\* Largest number of dismiss timeouts (setTimeout of CaptureToast) pending at
\* the same time: a step that would schedule one more waits for one to fire.
MaxTimers == 1

\* JavaScript null / undefined of a string-valued state.
None == "null"

Modes == {"vlm", "ocr"}

\* useCameraPermissions(): null while loading, then granted or not.
Permissions == {"null", "denied", "granted"}

\* event.nativeEvent.state of a gesture handler state change: the two the
\* handlers test for (each is the "any other state" of the other's test).
GestureStates == {"ACTIVE", "END"}

\* event.nativeEvent.translationX of a pan gesture.
Translations == {-51, -50, 50, 51}

\* Outcomes of ref.current.takePictureAsync: a picture with a uri, no
\* picture (undefined, or no uri), or a rejected promise.
CameraResults == {"photo", "nophoto", "throws"}

\* Outcomes of the POST issued by processImage: a 2xx JSON body with a
\* caption, a 2xx JSON body without one, a non-2xx status, a rejected
\* fetch, a 2xx body that is not JSON.
Responses == {"ok", "ok_nocaption", "http_error", "network_error", "bad_json"}

PhotoUri == "file:photo.jpg"

\* The text the service at an endpoint answers with.
ServerCaption(endpoint) == IF endpoint = "/vlm" THEN "a chair" ELSE "EXIT"

VARIABLES
    permission,        \* useCameraPermissions()
    currentMode,       \* useState<'vlm' | 'ocr'>('vlm')
    capturedImageUri,  \* useState<string | null>(null)
    isToastVisible,    \* useState(false)
    currentCaption,    \* useState<string | null>(null)
    isUploading,       \* useState(false)
    rendered,          \* the state values the handlers in use closed over
                       \* (NoRender once App is unmounted)
    dirty,             \* a state update is waiting for a re-render
    interval,          \* the setInterval of the auto-capture effect
    reqs,              \* takePicture invocations suspended at an await
    speech,            \* the utterances expo-speech is speaking or has queued
    anim,              \* the Animated.timing running on animatedScale
    scale,             \* animatedScale: 0 (toast not drawn) or 1 (drawn)
    timers,            \* pending setTimeout(..., 500) of CaptureToast
    ev                 \* the event handled by the last step and its outputs

vars == <<permission, currentMode, capturedImageUri, isToastVisible,
          currentCaption, isUploading, rendered, dirty, interval, reqs,
          speech, anim, scale, timers, ev>>

state == <<permission, currentMode, capturedImageUri, isToastVisible,
           currentCaption, isUploading>>

\* The values the handlers of a render close over.
Snapshot ==
    [permission |-> permission, currentMode |-> currentMode,
     isUploading |-> isUploading]

\* App is unmounted: no render is committed, no handler is in use.
NoRender == [permission |-> "none", currentMode |-> "none", isUploading |-> FALSE]

mounted == rendered # NoRender

\* A setter that changes a state value schedules a re-render; one that sets
\* the value the state already has does not.  A setter of the unmounted App
\* is followed by no render: the value it gives is never read.
Schedule == dirty' = (mounted /\ (dirty \/ state' # state))

\* What CaptureToast keeps outside React state.
toast == <<anim, scale, timers>>

NoAnimation == [kind |-> "none", isUploading |-> FALSE]

NoInterval == [armed |-> FALSE, isUploading |-> FALSE]

NoReq == [id |-> 0, trigger |-> "none", source |-> "none", phase |-> "none",
          endpoint |-> "none", outcome |-> "none"]

\* Names the suspended invocations apart: the least number none of them has.
FreeId == CHOOSE n \in 1..(Len(reqs) + 1) :
              /\ \A i \in 1..Len(reqs) : reqs[i].id # n
              /\ \A m \in 1..(n - 1) : \E i \in 1..Len(reqs) : reqs[i].id = m

\* kind: the event handled; started: takePicture went past its guard;
\* finished: the request that ended, as it ended; spoke: the text given to
\* speakCaption.
Event(kind, started, finished, spoke) ==
    [kind |-> kind, started |-> started, finished |-> finished, spoke |-> spoke]

\* speakCaption without Speech.stop(): Speech.speak alone queues the text
\* behind the utterances that are not finished.
speakCaptionNoStop(text) == speech' = Append(speech, text)

\* speakCaption: Speech.stop() drops the utterance being spoken and those
\* queued, then Speech.speak(text) queues text.
speakCaption(text) == speech' = Append(<<>>, text)

\* ref.current: the CameraView is mounted by the render that has permission.
refCurrent == rendered.permission = "granted"

Remove(s, i) == SubSeq(s, 1, i - 1) \o SubSeq(s, i + 1, Len(s))

Init ==
    /\ permission = "null"
    /\ currentMode = "vlm"
    /\ capturedImageUri = None
    /\ isToastVisible = FALSE
    /\ currentCaption = None
    /\ isUploading = FALSE
    /\ rendered = Snapshot
    /\ dirty = FALSE
    /\ interval = NoInterval
    /\ reqs = <<>>
    /\ speech = <<>>
    /\ anim = NoAnimation
    /\ scale = 0
    /\ timers = 0
    /\ ev = Event("init", FALSE, NoReq, None)

\* The permission hook resolves, or the user grants on the permission screen.
PermissionChange(p) ==
    /\ mounted
    /\ \/ permission = "null" /\ p \in {"denied", "granted"}
       \/ permission = "denied" /\ rendered.permission = "denied" /\ p = "granted"
    /\ permission' = p
    /\ ev' = Event("permission", FALSE, NoReq, None)
    /\ UNCHANGED <<currentMode, capturedImageUri, isToastVisible, currentCaption,
                   isUploading, rendered, interval, reqs, speech, toast>>
    /\ Schedule

\* AutoCaptureEffect without its cleanup: the interval of an earlier render is
\* left running when the new render arms none.
AutoCaptureEffectNoCleanup(r) ==
    IF r.currentMode = "vlm" /\ r.permission = "granted"
    THEN [armed |-> TRUE, isUploading |-> r.isUploading]
    ELSE interval

\* The auto-capture effect of a render r: the interval it leaves armed, with
\* the isUploading its callback (and the takePicture it calls) closes over.
AutoCaptureEffect(r) ==
    IF r.currentMode = "vlm" /\ r.permission = "granted"
    THEN [armed |-> TRUE, isUploading |-> r.isUploading]
    ELSE NoInterval

\* The callback given to start() of the animation a, which runs when a ends
\* or is stopped by the next animation on animatedScale, schedules a dismiss
\* timeout: a is the show animation of a render with isUploading false.
ShowCallbackArms(a) == a.kind = "show" /\ ~a.isUploading

\* Starting an animation on animatedScale stops the one that is running,
\* whose callback runs with finished: false: the show callback may schedule a
\* dismiss timeout, the hide callback is onClose.
TimersAfterStop(a) == IF ShowCallbackArms(a) THEN timers + 1 ELSE timers

\* onClose: setIsToastVisible(false); setCurrentCaption(null).
onClose ==
    /\ isToastVisible' = FALSE
    /\ currentCaption' = None

\* React re-renders App with the current state and commits: the handlers are
\* replaced, the auto-capture effect whose dependencies changed is cleaned up
\* and re-run, and the effect of CaptureToast runs (onClose is a new function
\* in every render of App): if (isVisible) it starts the show animation.
Commit ==
    /\ mounted
    /\ dirty
    /\ rendered' = Snapshot
    /\ interval' =
         IF <<currentMode, permission, isUploading>> #
            <<rendered.currentMode, rendered.permission, rendered.isUploading>>
         THEN AutoCaptureEffect(Snapshot)
         ELSE interval
    /\ IF permission = "granted" /\ isToastVisible
       THEN /\ anim' = [kind |-> "show", isUploading |-> isUploading]
            /\ timers' = TimersAfterStop(anim)
            /\ timers' <= MaxTimers
            /\ IF anim.kind = "hide"
               THEN onClose
               ELSE UNCHANGED <<isToastVisible, currentCaption>>
       ELSE UNCHANGED <<anim, timers, isToastVisible, currentCaption>>
    /\ ev' = Event("commit", FALSE, NoReq, None)
    /\ UNCHANGED <<permission, currentMode, capturedImageUri, isUploading, reqs,
                   speech, scale>>
    /\ dirty' = (state' # state)

\* The show animation reaches toValue 1 and its callback runs.
ShowEnd ==
    /\ anim.kind = "show"
    /\ scale' = 1
    /\ anim' = NoAnimation
    /\ timers' = TimersAfterStop(anim)
    /\ timers' <= MaxTimers
    /\ ev' = Event("showEnd", FALSE, NoReq, None)
    /\ UNCHANGED <<state, rendered, dirty, interval, reqs, speech>>

\* A dismiss timeout fires and starts the hide animation.
DismissFire ==
    /\ timers > 0
    /\ anim' = [kind |-> "hide", isUploading |-> FALSE]
    /\ timers' = TimersAfterStop(anim) - 1
    /\ IF anim.kind = "hide"
       THEN onClose
       ELSE UNCHANGED <<isToastVisible, currentCaption>>
    /\ ev' = Event("dismissFire", FALSE, NoReq, None)
    /\ UNCHANGED <<permission, currentMode, capturedImageUri, isUploading,
                   rendered, interval, reqs, speech, scale>>
    /\ Schedule

\* The hide animation reaches toValue 0 and its callback, onClose, runs.
HideEnd ==
    /\ anim.kind = "hide"
    /\ scale' = 0
    /\ anim' = NoAnimation
    /\ onClose
    /\ ev' = Event("hideEnd", FALSE, NoReq, None)
    /\ UNCHANGED <<permission, currentMode, capturedImageUri, isUploading,
                   rendered, interval, reqs, speech, timers>>
    /\ Schedule

\* App is unmounted (the screen is left, the root is torn down): the cleanup
\* of the auto-capture effect runs clearInterval; the effect of CaptureToast
\* has no cleanup, and the suspended takePicture invocations stay suspended.
Unmount ==
    /\ mounted
    /\ rendered' = NoRender
    /\ dirty' = FALSE
    /\ interval' = NoInterval
    /\ ev' = Event("unmount", FALSE, NoReq, None)
    /\ UNCHANGED <<state, reqs, speech, toast>>

\* Endpoint read from the current mode instead of the request's source.
EndpointOfCurrentMode(source) == IF currentMode = "ocr" THEN "/ocr" ELSE "/vlm"

\* let endpoint = '/vlm'; if (source === 'ocr') endpoint = '/ocr';
Endpoint(source) == IF source = "ocr" THEN "/ocr" ELSE "/vlm"

\* takePicture(source) of a render whose isUploading is closureUploading, up
\* to its first await (takePictureAsync).
takePicture(source, trigger, closureUploading, kind) ==
    IF refCurrent /\ ~closureUploading
    THEN /\ Len(reqs) < MaxInFlight
         /\ isUploading' = TRUE
         /\ currentCaption' = None
         /\ reqs' = Append(reqs, [id |-> FreeId,
                                  trigger |-> trigger, source |-> source,
                                  phase |-> "capturing", endpoint |-> "none",
                                  outcome |-> "pending"])
         /\ ev' = Event(kind, TRUE, NoReq, None)
         /\ UNCHANGED <<permission, currentMode, capturedImageUri,
                        isToastVisible, rendered, interval, speech, toast>>
         /\ Schedule
    ELSE /\ ev' = Event(kind, FALSE, NoReq, None)
         /\ UNCHANGED <<state, rendered, dirty, interval, reqs, speech, toast>>

\* The setInterval callback: if (!isUploading) takePicture('vlm').
Tick ==
    /\ interval.armed
    /\ IF ~interval.isUploading
       THEN takePicture("vlm", "timer", interval.isUploading, "tick")
       ELSE /\ ev' = Event("tick", FALSE, NoReq, None)
            /\ UNCHANGED <<state, rendered, dirty, interval, reqs, speech, toast>>

\* TapGestureHandler (numberOfTaps = 2) onHandlerStateChange.
Tap(gs) ==
    /\ rendered.permission = "granted"
    /\ IF rendered.currentMode = "ocr" /\ gs = "ACTIVE" /\ ~rendered.isUploading
       THEN takePicture("ocr", "doubletap", rendered.isUploading, "tap")
       ELSE /\ ev' = Event("tap", FALSE, NoReq, None)
            /\ UNCHANGED <<state, rendered, dirty, interval, reqs, speech, toast>>

\* NewMode without the !isUploading test.
NewModeNoBusyGuard(gs, translationX, r) ==
    IF gs = "END"
    THEN IF translationX > SWIPE_THRESHOLD /\ r.currentMode = "ocr" THEN "vlm"
         ELSE IF translationX < -SWIPE_THRESHOLD /\ r.currentMode = "vlm" THEN "ocr"
         ELSE None
    ELSE None

\* The newMode onHandlerStateChange computes in the render r (None: no change).
NewMode(gs, translationX, r) ==
    IF gs = "END" /\ ~r.isUploading
    THEN IF translationX > SWIPE_THRESHOLD /\ r.currentMode = "ocr" THEN "vlm"
         ELSE IF translationX < -SWIPE_THRESHOLD /\ r.currentMode = "vlm" THEN "ocr"
         ELSE None
    ELSE None

ModeName(newMode) == IF newMode = "vlm" THEN "Description" ELSE "text"

\* PanGestureHandler onHandlerStateChange.
Swipe(gs, translationX) ==
    /\ rendered.permission = "granted"
    /\ LET newMode == NewMode(gs, translationX, rendered) IN
       IF newMode # None
       THEN /\ currentMode' = newMode
            /\ speakCaption(ModeName(newMode))
            /\ ev' = Event("swipe", FALSE, NoReq, ModeName(newMode))
            /\ UNCHANGED <<permission, capturedImageUri, isToastVisible,
                           currentCaption, isUploading, rendered, interval, reqs,
                           toast>>
            /\ Schedule
       ELSE /\ ev' = Event("swipe", FALSE, NoReq, None)
            /\ UNCHANGED <<state, rendered, dirty, interval, reqs, speech, toast>>

\* The spec's name for the way a request ends, from what the camera or the
\* service gave it.
CameraOutcome(result) == IF result = "photo" THEN "pending" ELSE "CaptureError"

ResponseOutcome(resp) ==
    CASE resp = "ok" -> "Completed"
      [] resp = "ok_nocaption" -> "MalformedResponse"
      [] resp = "bad_json" -> "MalformedResponse"
      [] resp = "http_error" -> "ServerError"
      [] resp = "network_error" -> "NetworkError"

\* error.message of what processImage catches: a text of the thrown error,
\* whose wording decides nothing.
ErrorMessage(resp) ==
    CASE resp = "http_error" -> "<message>"
      [] resp = "network_error" -> "<message>"
      [] resp = "bad_json" -> "<message>"

\* What processImage(fileUri, targetEndpoint, source) returns for a response:
\* result.caption, or the text its catch block builds.
processImageReturn(targetEndpoint, source, resp) ==
    CASE resp = "ok" -> ServerCaption(targetEndpoint)
      [] resp = "ok_nocaption" -> None
      [] OTHER -> "Processing failed: " \o ErrorMessage(resp)

\* processImageSpeaks that drops a result whose source is no longer the mode.
processImageSpeaksIfModeCurrent(targetEndpoint, source, resp) ==
    IF resp = "ok" /\ currentMode = source THEN ServerCaption(targetEndpoint) ELSE None

\* processImageSpeaks that never calls speakCaption.
processImageSpeaksNothing(targetEndpoint, source, resp) == None

\* What processImage speaks for a response (None: it does not call
\* speakCaption): if (result.caption) speakCaption(result.caption).
processImageSpeaks(targetEndpoint, source, resp) ==
    IF resp = "ok" THEN ServerCaption(targetEndpoint) ELSE None

\* UploadingAfterCapture whose catch block does not clear the flag.
UploadingAfterCaptureNoCatch(result) == IF result = "nophoto" THEN FALSE ELSE isUploading

\* isUploading once takePicture has resumed from takePictureAsync: with a
\* photo it goes on to processImage; without one it falls through to
\* setIsUploading(false); on an exception its catch calls setIsUploading(false).
UploadingAfterCapture(result) == IF result = "photo" THEN isUploading ELSE FALSE

\* takePicture resumes from await ref.current.takePictureAsync(...).
CaptureReturn(i, result) ==
    /\ i \in 1..Len(reqs)
    /\ reqs[i].phase = "capturing"
    /\ CASE result = "photo" ->
              /\ capturedImageUri' = PhotoUri
              /\ isToastVisible' = TRUE
              /\ reqs' = [reqs EXCEPT ![i].phase = "awaiting",
                                      ![i].endpoint = Endpoint(reqs[i].source)]
              /\ ev' = Event("captureReturn", FALSE, NoReq, None)
              /\ UNCHANGED currentCaption
         [] result = "nophoto" ->
              /\ reqs' = Remove(reqs, i)
              /\ ev' = Event("captureReturn", FALSE,
                             [reqs[i] EXCEPT !.phase = "done",
                                             !.outcome = CameraOutcome(result)],
                             None)
              /\ UNCHANGED <<capturedImageUri, isToastVisible, currentCaption>>
         [] result = "throws" ->
              /\ currentCaption' = "Error: Camera capture failed"
              /\ reqs' = Remove(reqs, i)
              /\ ev' = Event("captureReturn", FALSE,
                             [reqs[i] EXCEPT !.phase = "done",
                                             !.outcome = CameraOutcome(result)],
                             None)
              /\ UNCHANGED <<capturedImageUri, isToastVisible>>
    /\ isUploading' = UploadingAfterCapture(result)
    /\ UNCHANGED <<permission, currentMode, rendered, interval, speech, toast>>
    /\ Schedule

\* ReqsAfterFetch that submits again after a failed POST: the invocation
\* stays suspended at processImage.
ReqsAfterFetchRetry(i, resp) ==
    IF resp \in {"http_error", "network_error"} THEN reqs ELSE Remove(reqs, i)

\* The suspended invocations once invocation i has resumed from processImage:
\* neither processImage nor takePicture loops, whatever the response the
\* invocation runs to its end.
ReqsAfterFetch(i, resp) == Remove(reqs, i)

\* takePicture resumes from await processImage(photo.uri, endpoint, source),
\* which resumed from its fetch.
FetchReturn(i, resp) ==
    /\ i \in 1..Len(reqs)
    /\ reqs[i].phase = "awaiting"
    /\ LET r == reqs[i]
           caption == processImageReturn(r.endpoint, r.source, resp)
           spoken == processImageSpeaks(r.endpoint, r.source, resp)
       IN /\ IF spoken # None THEN speakCaption(spoken) ELSE UNCHANGED speech
          /\ currentCaption' = caption
          /\ isUploading' = FALSE
          /\ reqs' = ReqsAfterFetch(i, resp)
          /\ ev' = Event("fetchReturn", FALSE,
                         [r EXCEPT !.phase = "done", !.outcome = ResponseOutcome(resp)],
                         spoken)
    /\ UNCHANGED <<permission, currentMode, capturedImageUri, isToastVisible,
                   rendered, interval, toast>>
    /\ Schedule

Next ==
    \/ \E p \in Permissions : PermissionChange(p)
    \/ Commit
    \/ Tick
    \/ \E gs \in GestureStates : Tap(gs)
    \/ \E gs \in GestureStates, dx \in Translations : Swipe(gs, dx)
    \/ \E i \in 1..MaxInFlight, result \in CameraResults : CaptureReturn(i, result)
    \/ \E i \in 1..MaxInFlight, resp \in Responses : FetchReturn(i, resp)
    \/ ShowEnd
    \/ DismissFire
    \/ HideEnd
    \/ Unmount

Spec == Init /\ [][Next]_vars

\* The camera call and the network call of every invocation return or fail:
\* a suspended takePicture is resumed.
Resume(id) ==
    \E i \in 1..MaxInFlight :
        /\ i <= Len(reqs)
        /\ reqs[i].id = id
        /\ \/ \E result \in CameraResults : CaptureReturn(i, result)
           \/ \E resp \in Responses : FetchReturn(i, resp)

FairSpec == Spec /\ \A id \in 1..MaxInFlight : WF_vars(Resume(id))

\* Nothing of the last capture is left to happen: no request in flight, no
\* re-render pending, no toast animation running, no dismiss timeout pending.
Quiescent ==
    /\ Len(reqs) = 0
    /\ ~dirty
    /\ anim.kind = "none"
    /\ timers = 0

\* Automatic operation with no gesture, a camera that delivers a photo and a
\* service that answers with a caption, all well within the capture period:
\* AUTO_CAPTURE_INTERVAL (10 s, counted from the re-render that follows the
\* answer, which re-arms the interval) is longer than the whole toast cycle
\* (300 ms + 500 ms + 200 ms), so a tick finds the last capture finished.
ScenarioNext ==
    \/ \E p \in Permissions : PermissionChange(p)
    \/ Commit
    \/ Quiescent /\ Tick
    \/ \E i \in 1..MaxInFlight : CaptureReturn(i, "photo")
    \/ \E i \in 1..MaxInFlight : FetchReturn(i, "ok")
    \/ ShowEnd
    \/ DismissFire
    \/ HideEnd

\* The scenario starts wherever the camera screen is up in mode vlm with
\* nothing left to happen, after whatever earlier captures and mode
\* changes, which leave behind their last image, a caption that no onClose
\* cleared, the toast drawn or not, and their last utterance (a returned
\* text is spoken only of a captured image and is then the caption unless a
\* later step replaced either; the phrase of a return to mode vlm is
\* 'Description').
ScenarioRunning ==
    /\ permission = "granted"
    /\ currentMode = "vlm"
    /\ capturedImageUri \in {None, PhotoUri}
    /\ isToastVisible = FALSE
    /\ currentCaption \in {None, "Error: Camera capture failed",
                            "Processing failed: " \o ErrorMessage("http_error"),
                            ServerCaption("/vlm"), ServerCaption("/ocr")}
    /\ isUploading = FALSE
    /\ rendered = Snapshot
    /\ dirty = FALSE
    /\ interval = AutoCaptureEffect(Snapshot)
    /\ reqs = <<>>
    /\ speech \in {<<>>, <<ModeName("vlm")>>, <<ServerCaption("/vlm")>>,
                    <<ServerCaption("/ocr")>>}
    /\ anim = NoAnimation
    /\ scale \in {0, 1}
    /\ timers = 0
    /\ capturedImageUri = None
          => /\ speech \in {<<>>, <<ModeName("vlm")>>}
             /\ currentCaption \in {None, "Error: Camera capture failed"}
             /\ scale = 0
    /\ currentCaption \in {ServerCaption("/vlm"), ServerCaption("/ocr")}
          => speech \in {<<currentCaption>>, <<ModeName("vlm")>>}
    /\ ev = Event("commit", FALSE, NoReq, None)

\* ... or at launch.
ScenarioInit == Init \/ ScenarioRunning

ScenarioSpec == ScenarioInit /\ [][ScenarioNext]_vars

(***************************************************************************)
(* Vocabulary of the claims.                                               *)
(***************************************************************************)

\* The pipeline is busy: a request is in its Capturing..AwaitingResult window.
Busy == Len(reqs) > 0

\* No state update is waiting for a re-render: the handlers in use read the
\* current state.
Settled == ~dirty

\* The endpoint of a request's trigger: timer -> /vlm, double-tap -> /ocr.
TriggerEndpoint(trigger) == IF trigger = "timer" THEN "/vlm" ELSE "/ocr"

OtherMode(mode) == IF mode = "vlm" THEN "ocr" ELSE "vlm"

\* A swipe end past the threshold in the direction that leaves `mode`.
ValidSwipe(gs, translationX, mode) ==
    /\ gs = "END"
    /\ \/ mode = "ocr" /\ translationX > SWIPE_THRESHOLD
       \/ mode = "vlm" /\ translationX < -SWIPE_THRESHOLD

\* The spec's failed terminal outcomes of a request.
Failures == {"CaptureError", "NetworkError", "ServerError", "MalformedResponse"}

\* A caption that reports an error: the text takePicture's catch sets, or the
\* text processImage's catch returns.
IsErrorText(caption) ==
    \/ caption = "Error: Camera capture failed"
    \/ \E resp \in {"http_error", "network_error", "bad_json"} :
          caption = "Processing failed: " \o ErrorMessage(resp)

\* C1: at most one capture request is in its Capturing..AwaitingResult
\* window at any instant.
C1_SingleFlight == Len(reqs) <= 1

\* C2: no timer tick, double-tap or swipe is handled by a handler that sees
\* busy = true when every request has already reached its terminal state.
C2_BusyClearedBeforeNextEvent ==
    [][(ev'.kind \in {"tick", "tap", "swipe"} /\ rendered.isUploading)
         => Busy]_vars

\* C3: a capture request (timer tick or double-tap) that arrives while the
\* pipeline is busy starts nothing and leaves upload state, captured image,
\* toast visibility, caption and speech unchanged.
C3_DroppedRequestHasNoEffect ==
    [][(ev'.kind \in {"tick", "tap"} /\ Busy)
         => /\ ~ev'.started
            /\ UNCHANGED <<isUploading, capturedImageUri, isToastVisible,
                           currentCaption, speech, reqs>>]_vars

\* C4: every submitted request goes to the endpoint of its own trigger
\* (timer -> /vlm, double-tap -> /ocr), whatever the current mode is.
C4_EndpointFixedByTrigger ==
    /\ \A i \in 1..Len(reqs) :
          reqs[i].phase = "awaiting" => reqs[i].endpoint = TriggerEndpoint(reqs[i].trigger)
    /\ ev.finished.endpoint \in {"/vlm", "/ocr"}
          => ev.finished.endpoint = TriggerEndpoint(ev.finished.trigger)

\* C4 witness: a timer request has just been submitted to /vlm while the
\* current mode is already ocr.
C4_Witness ==
    /\ ev.kind = "captureReturn"
    /\ Len(reqs) = 1
    /\ reqs[1].phase = "awaiting"
    /\ reqs[1].trigger = "timer"
    /\ reqs[1].endpoint = "/vlm"
    /\ currentMode = "ocr"

\* C5 as stated: a swipe past the threshold in a direction valid for the
\* current mode changes the mode even when it ends while a request is busy.
C5_SwipeAcceptedWhileBusy ==
    [][\A gs \in GestureStates, dx \in Translations :
          (Settled /\ Busy /\ ValidSwipe(gs, dx, currentMode) /\ Swipe(gs, dx))
            => currentMode' # currentMode]_vars

\* C5 amended: a swipe past the threshold in a direction valid for the mode
\* of the render that handles it sets the mode to the other mode, and
\* announces it, only when that render's isUploading is false; when the
\* handler sees isUploading true the swipe changes nothing and says nothing.
C5_SwipeBlockedWhileRenderedBusy ==
    [][\A gs \in GestureStates, dx \in Translations :
          (ValidSwipe(gs, dx, rendered.currentMode) /\ Swipe(gs, dx))
            => IF rendered.isUploading
               THEN /\ currentMode' = currentMode
                    /\ ev'.spoke = None
                    /\ speech' = speech
               ELSE /\ currentMode' = OtherMode(rendered.currentMode)
                    /\ ev'.spoke = ModeName(currentMode')]_vars

\* C5 witness: a swipe has just ended (every swipe, the valid ones too,
\* leaves this state) while a request is in flight and the handler saw
\* isUploading true: it changed nothing.
C5_Witness ==
    /\ ev.kind = "swipe"
    /\ rendered.isUploading
    /\ Busy
    /\ ev.spoke = None
    /\ \E dx \in Translations : ValidSwipe("END", dx, rendered.currentMode)

\* C6: the text the service returns for a request is put in the toast
\* caption and spoken when it arrives, and it is the text of the endpoint of
\* the request's trigger, whatever the mode is at that moment.
C6_LateResultAnnounced ==
    [][(ev'.kind = "fetchReturn" /\ ev'.finished.outcome = "Completed")
         => LET text == ServerCaption(TriggerEndpoint(ev'.finished.trigger)) IN
            /\ currentCaption' = text
            /\ ev'.spoke = text
            /\ speech' = <<text>>]_vars

\* C6 witness: the result of a timer request has just arrived and been
\* announced while the mode is ocr.
C6_Witness ==
    /\ ev.kind = "fetchReturn"
    /\ ev.finished.trigger = "timer"
    /\ ev.finished.outcome = "Completed"
    /\ currentMode = "ocr"
    /\ currentCaption = "a chair"
    /\ speech = <<"a chair">>

\* C7 as stated: with permission granted and nothing waiting for a
\* re-render, the capture timer is armed iff the mode is vlm and the
\* pipeline is not busy.
C7_TimerArmedIffAutomaticAndIdle ==
    (Settled /\ permission = "granted")
        => (interval.armed <=> (currentMode = "vlm" /\ ~isUploading))

\* C7 amended: the capture timer is armed iff the last committed render has
\* mode vlm and camera permission, whether or not it is busy; the armed
\* callback closes over that render's isUploading.
C7_TimerArmedIffRenderedAutomatic ==
    /\ interval.armed <=> (rendered.currentMode = "vlm" /\ rendered.permission = "granted")
    /\ interval.armed => interval.isUploading = rendered.isUploading

\* C7 witness: the timer is armed while a request is in flight and the
\* busy flag has been rendered.
C7_Witness ==
    /\ interval.armed
    /\ Busy
    /\ isUploading
    /\ Settled

\* C8: a timer tick starts a capture request only while the mode is vlm.
C8_NoTimerCaptureInManual ==
    [][(ev'.kind = "tick" /\ ev'.started) => currentMode = "vlm"]_vars

\* C9: a timer tick that occurs while the pipeline is busy starts no capture.
C9_TickWhileBusySuppressed ==
    [][(ev'.kind = "tick" /\ Busy) => ~ev'.started]_vars

\* C10: a double-tap starts a request only when the mode is ocr and the
\* pipeline is not busy, and otherwise starts none and shows no toast.
C10_DoubleTapOnlyManualIdle ==
    [][(ev'.kind = "tap" /\ ~(currentMode = "ocr" /\ ~Busy))
         => ~ev'.started /\ UNCHANGED <<reqs, isToastVisible>>]_vars

\* C11: a swipe changes the mode ocr -> vlm only when it ends with
\* translationX > 50 while the mode is ocr, and vlm -> ocr only when it ends
\* with translationX < -50 while the mode is vlm; every other swipe leaves
\* the mode unchanged and announces nothing.
C11_SwipeClassification ==
    [][\A gs \in GestureStates, dx \in Translations :
          (ev'.kind = "swipe" /\ Swipe(gs, dx))
            => IF ValidSwipe(gs, dx, currentMode)
               THEN currentMode' \in {currentMode, OtherMode(currentMode)}
               ELSE /\ currentMode' = currentMode
                    /\ ev'.spoke = None
                    /\ speech' = speech]_vars

\* C12: a mode is announced only by a step that changes the mode, and a step
\* that changes the mode announces the fixed phrase of the new mode.
C12_AnnouncementIffModeChange ==
    [][/\ currentMode' # currentMode => ev'.spoke = ModeName(currentMode')
       /\ (ev'.kind = "swipe" /\ ev'.spoke # None) => currentMode' # currentMode]_vars

\* C13: when a request ends in a failure the toast is visible, is drawn (it
\* has an image) and shows an error text.
C13_FailureShownInToast ==
    [][ev'.finished.outcome \in Failures
         => /\ isToastVisible'
            /\ capturedImageUri' # None
            /\ IsErrorText(currentCaption')]_vars

\* C14: every request that ends, failed or completed, is announced by speech
\* when it ends.
C14_EveryOutcomeSpoken ==
    [][ev'.finished.outcome \in Failures \cup {"Completed"}
         => ev'.spoke # None]_vars

\* C15: once a request has failed and no request is in flight, the next
\* timer tick in mode vlm, or the next double-tap in mode ocr, starts a new
\* request.
C15_NextTriggerAcceptedAfterFailure ==
    [][(ev.finished.outcome \in Failures /\ ~Busy)
         => /\ (currentMode = "vlm" /\ Tick) => ev'.started
            /\ (currentMode = "ocr" /\ Tap("ACTIVE")) => ev'.started]_vars

\* C16: a request whose response has a success status but no caption field
\* ends with an error text as its caption, like the other failures.
C16_MissingCaptionIsFailure ==
    [][(ev'.kind = "fetchReturn" /\ ev'.finished.outcome = "MalformedResponse")
         => IsErrorText(currentCaption')]_vars

\* C17: every request that was accepted eventually ends, Completed or
\* Failed, and the step that ends it leaves isUploading false.
C17_AcceptedRequestTerminates ==
    \A id \in 1..MaxInFlight :
        (\E i \in 1..Len(reqs) : reqs[i].id = id)
            ~> /\ ev.finished.id = id
               /\ ev.finished.outcome \in Failures \cup {"Completed"}
               /\ ~isUploading

\* C17 witness: a request that was in flight together with another one has
\* just ended through takePicture's catch block, and isUploading is false.
C17_Witness ==
    /\ ev.kind = "captureReturn"
    /\ ev.finished.id = 2
    /\ ev.finished.outcome = "CaptureError"
    /\ currentCaption = "Error: Camera capture failed"
    /\ ~isUploading

\* C18: in automatic operation with no gesture and a camera and a service
\* that answer well within the capture period, every timer tick starts a
\* request and it is the only one in flight; every answer is spoken and put
\* in the caption of the visible toast as the text "a chair"; nothing else
\* is spoken.
C18_AutomaticSteadyState ==
    [][/\ ev'.kind = "tick" => (ev'.started /\ Len(reqs) = 0)
       /\ Len(reqs') <= 1
       /\ ev'.kind = "fetchReturn"
            => /\ ev'.finished.outcome = "Completed"
               /\ ev'.spoke = "a chair"
               /\ speech' = <<"a chair">>
               /\ currentCaption' = "a chair"
               /\ isToastVisible'
               /\ capturedImageUri' = PhotoUri
       /\ ev'.spoke # None => ev'.kind = "fetchReturn"]_vars

\* C18 witness: after an earlier request was answered and announced and its
\* toast was dismissed, the next tick has started the next request.
C18_Witness ==
    /\ ev.kind = "tick"
    /\ ev.started
    /\ Len(reqs) = 1
    /\ speech = <<"a chair">>
    /\ capturedImageUri = PhotoUri
    /\ ~isToastVisible

\* The number of suspended invocations that wait for the camera
\* ("capturing") or for the service ("awaiting").
InPhase(r, phase) == Cardinality({i \in 1..Len(r) : r[i].phase = phase})

\* A dismiss is on its way: a dismiss timeout is pending, the show animation
\* whose callback schedules one is running, or the hide animation whose
\* callback is onClose is running.
DismissPending == timers > 0 \/ ShowCallbackArms(anim) \/ anim.kind = "hide"

\* C19: when a capture begins, no dismiss scheduled before it is left
\* pending.
C19_DismissCancelledByNewCapture ==
    [][ev'.started => ~DismissPending']_vars

\* C20: while a request is in flight the toast is not dismissed: no dismiss
\* timeout fires, no hide animation ends, and isToastVisible is not reset.
C20_NoDismissWhileBusy ==
    [][Busy => /\ ev'.kind \notin {"dismissFire", "hideEnd"}
               /\ isToastVisible => isToastVisible']_vars

\* C21: in every state where a request is in flight, the toast is visible.
C21_ToastVisibleWhileBusy == Busy => isToastVisible

\* C22: once nothing of the last request is left to happen (no request in
\* flight, no re-render, animation or dismiss timeout pending), the toast has
\* been dismissed: it is hidden and the caption is null.
C22_DismissedWhenNothingPending ==
    Quiescent => (~isToastVisible /\ currentCaption = None)

\* C23: expo-speech never holds more than one utterance, and a step that
\* announces a text leaves that text as the only one.
C23_OneUtterance ==
    [][/\ Len(speech') <= 1
       /\ ev'.spoke # None => speech' = <<ev'.spoke>>]_vars

\* C23 witness: the text of a timer request has just been announced in mode
\* ocr, that is after the phrase of the mode change, and it is the only
\* utterance.
C23_Witness ==
    /\ ev.kind = "fetchReturn"
    /\ ev.spoke = "a chair"
    /\ currentMode = "ocr"
    /\ speech = <<"a chair">>

\* C24: once App is unmounted, no capture-interval callback and no
\* toast-dismiss callback (the dismiss timeout, the onClose of the hide
\* animation) runs.
C24_NoCallbackAfterTeardown ==
    [][~mounted => ev'.kind \notin {"tick", "dismissFire", "hideEnd"}]_vars

\* C25: a request is added only by an accepted trigger; the return of the
\* camera call ends one capture and submits at most one POST; the return of
\* the POST ends one submission and the request, failed or not, without a
\* new capture or a new submission.
C25_NoRetry ==
    [][/\ Len(reqs') > Len(reqs)
            => /\ ev'.kind \in {"tick", "tap"}
               /\ ev'.started
               /\ Len(reqs') = Len(reqs) + 1
       /\ ev'.kind = "captureReturn"
            => /\ InPhase(reqs', "capturing") = InPhase(reqs, "capturing") - 1
               /\ InPhase(reqs', "awaiting") <= InPhase(reqs, "awaiting") + 1
       /\ ev'.kind = "fetchReturn"
            => /\ InPhase(reqs', "awaiting") = InPhase(reqs, "awaiting") - 1
               /\ InPhase(reqs', "capturing") = InPhase(reqs, "capturing")
       /\ ev'.finished.outcome \in Failures => Len(reqs') = Len(reqs) - 1]_vars

\* C25 witness: a request has just failed with a server error and no
\* invocation is left.
C25_Witness ==
    /\ ev.kind = "fetchReturn"
    /\ ev.finished.outcome = "ServerError"
    /\ reqs = <<>>

\* C26: the mode does not change while a request is in flight, and when a
\* request ends the mode is the mode of its trigger (vlm for the timer, ocr
\* for the double-tap).
C26_ModeFixedWhileBusy ==
    [][/\ Busy => currentMode' = currentMode
       /\ ev'.finished.outcome \in Failures \cup {"Completed"}
            => currentMode' = ev'.finished.source]_vars
====
